---- MODULE Spec2Model ----
(***************************************************************************)
(* Model of src/api/index.js: an Express application with six routes over  *)
(* the Stellar SDK and a remote Horizon gateway.                           *)
(*                                                                         *)
(* Every request is a slot r \in Reqs.  A handler runs synchronously up to *)
(* its `await` (one action) and, once the gateway call settles, from the   *)
(* `await` to its response (a second action).  The SDK and the gateway are *)
(* outside the repository: the values a body can carry are tagged with     *)
(* what the SDK does with them (a well-formed secret parses, a malformed   *)
(* one throws), and the gateway's answer is chosen by the environment.     *)
(***************************************************************************)
EXTENDS Integers, Sequences, FiniteSets, TLC

\* Number of request slots (requests the server has open at one time).
NumReqs == 2

Reqs == 1..NumReqs

(***************************************************************************)
(* JavaScript values of the JSON bodies                                    *)
(***************************************************************************)
\* a property that is not in req.body (destructures to undefined)
Absent == "<undefined>"
\* the default of assetIssuer
Null == "<null>"
\* no exception thrown
NoError == "<none>"

\* `!v` for the values a body carries here: undefined, null and ''
Falsy(v) == v \in {Absent, Null, ""}

\* secrets: not sent, malformed, well-formed
Secrets == {Absent, "SBAD", "SGOOD"}
ValidSecrets == {"SGOOD"}
\* account ids: not sent, well-formed
Destinations == {Absent, "GDEST"}
Issuers == {Absent, "GISSUER"}
ValidPublicKeys == {"GSRC", "GDEST", "GISSUER"}
\* amounts: empty, valid
Amounts == {"", "10"}
ValidAmounts == {"10", "1000000000", "500"}
\* asset codes: not sent, the native code, an issued code
AssetCodes == {Absent, "XLM", "USD"}
ValidAssetCodes == {"XLM", "USD"}
\* trustline limits: not sent, not a positive decimal
Limits == {Absent, "-1"}
\* envelopes: not sent, empty, undecodable, decodable
XDRs == {Absent, "", "garbage", "AAAAxdr"}
ValidXDRs == {"AAAAxdr"}

\* the bodies sent: any combination of the values above in which at most one
\* required field is missing
PaymentBodies ==
  {b \in [sourceSecret : Secrets, destinationAddress : Destinations, amount : Amounts,
          assetCode : AssetCodes, assetIssuer : Issuers] :
     Cardinality({f \in {"sourceSecret", "destinationAddress", "amount"} :
                    Falsy(b[f])}) <= 1}
TrustlineBodies ==
  {b \in [secretKey : Secrets, assetCode : {Absent, "USD"}, assetIssuer : Issuers,
          limit : Limits] :
     Cardinality({f \in {"secretKey", "assetCode", "assetIssuer"} :
                    Falsy(b[f])}) <= 1}
SubmitBodies == [signedXDR : XDRs]
NoBody == [none |-> Absent]

(***************************************************************************)
(* The gateway and the SDK as the handlers see them                        *)
(***************************************************************************)
\* what a settled gateway call yields: a result, or a rejection with a message
GatewayErrors == {"Not Found"}
AccountSeqs == {7}
SubmitResults == {[id |-> "tx1", ledger |-> "100", hash |-> "h1"]}
LoadAnswers ==
  [ok : {TRUE}, seq : AccountSeqs, msg : {NoError}]
    \cup [ok : {FALSE}, seq : {0}, msg : GatewayErrors]
SubmitAnswers ==
  [ok : {TRUE}, result : SubmitResults, msg : {NoError}]
    \cup [ok : {FALSE}, result : {NoBody}, msg : GatewayErrors]
\* Keypair.random(): a fresh pair, or an exception
RandomKeys == {[publicKey |-> "GNEW1", secretKey |-> "SNEW1"],
               [publicKey |-> "GNEW2", secretKey |-> "SNEW2"]}
RandomAnswers ==
  [ok : {TRUE}, pair : RandomKeys, msg : {NoError}]
    \cup [ok : {FALSE}, pair : {NoBody}, msg : {"random source failed"}]
NoAnswer == [ok |-> FALSE, msg |-> NoError]

VARIABLES
  pc,       \* pc[r]: "idle" (no request), "await" (suspended on the gateway), "done"
  route,    \* route[r]: the route of the request in slot r
  body,     \* body[r]: req.body
  gw,       \* gw[r]: the gateway calls of r: issued, settled, the last answer
  log,      \* log[r]: the SDK, gateway and response steps the handler has run, in order
  thrown,   \* thrown[r]: the message of the exception the handler caught
  drawn,    \* drawn[r]: what Keypair.random() gave the handler
  resp      \* resp[r]: the responses written to res, in order

vars == <<pc, route, body, gw, log, thrown, drawn, resp>>

NoGateway == [issued |-> 0, settled |-> 0, kind |-> "none", answer |-> NoAnswer]

Init ==
  /\ pc = [r \in Reqs |-> "idle"]
  /\ route = [r \in Reqs |-> "none"]
  /\ body = [r \in Reqs |-> NoBody]
  /\ gw = [r \in Reqs |-> NoGateway]
  /\ log = [r \in Reqs |-> <<>>]
  /\ thrown = [r \in Reqs |-> NoError]
  /\ drawn = [r \in Reqs |-> NoAnswer]
  /\ resp = [r \in Reqs |-> <<>>]

(***************************************************************************)
(* Responses                                                               *)
(***************************************************************************)
\* res.status(400).json({success: false, error: msg})
BadRequest(msg) == [status |-> 400, json |-> [success |-> FALSE, error |-> msg]]

\* a catch block that forgets res.status(500): the error goes out with status 200
ServerErrorNoStatus(msg) == [status |-> 200, json |-> [success |-> FALSE, error |-> msg]]

\* the catch block of every handler: res.status(500).json({success: false, error: error.message})
ServerError(msg) == [status |-> 500, json |-> [success |-> FALSE, error |-> msg]]

\* res.json(payload): status 200
Ok(payload) == [status |-> 200, json |-> payload]

(***************************************************************************)
(* The SDK calls of the handlers                                           *)
(***************************************************************************)
\* Keypair.fromSecret(secret): throws on a malformed secret
FromSecretError(secret) ==
  IF secret \in ValidSecrets THEN NoError ELSE "invalid encoded string"

\* keypair.publicKey()
PublicKeyOf(secret) == "GSRC"

\* new Asset(code, issuer): throws on an invalid code or issuer
AssetError(code, issuer) ==
  IF code \notin ValidAssetCodes
    THEN "Asset code is invalid (maximum alphanumeric, 12 characters at max)"
  ELSE IF issuer \notin ValidPublicKeys THEN "Issuer is invalid"
  ELSE NoError

\* Operation.payment({destination, asset, amount}): throws on an invalid field
PaymentOpError(destination, amount) ==
  IF destination \notin ValidPublicKeys THEN "destination is invalid"
  ELSE IF amount \notin ValidAmounts
    THEN "amount argument must be of type String, represent a positive number and have at most 7 digits after the decimal"
  ELSE NoError

\* Operation.changeTrust({asset, limit}): throws on an invalid limit
ChangeTrustError(limit) ==
  IF limit \notin ValidAmounts
    THEN "limit argument must be of type String, represent a positive number and have at most 7 digits after the decimal"
  ELSE NoError

\* TransactionBuilder.fromXDR(signedXDR, NETWORK_PASSPHRASE): throws on an undecodable envelope
FromXDRError(xdr) ==
  IF xdr \in ValidXDRs THEN NoError ELSE "XDR Read Error: unknown envelope"

\* transaction.toXDR(): the envelope of a signed transaction
ToXDR(tx) == <<"envelope", tx>>

(***************************************************************************)
(* POST /api/create-payment                                                *)
(***************************************************************************)
\* the destructuring of req.body with its defaults
PaymentParams(b) ==
  [b EXCEPT !.assetCode = IF @ = Absent THEN "XLM" ELSE @,
            !.assetIssuer = IF @ = Absent THEN Null ELSE @]

\* a validation that forgets amount
MissingPaymentParamsNoAmount(p) ==
  Falsy(p.sourceSecret) \/ Falsy(p.destinationAddress)

\* if (!sourceSecret || !destinationAddress || !amount)
MissingPaymentParams(p) ==
  Falsy(p.sourceSecret) \/ Falsy(p.destinationAddress) \/ Falsy(p.amount)

\* an asset resolution that looks at the issuer before the code
ResolveAssetIssuerFirst(assetCode, assetIssuer) ==
  IF ~Falsy(assetIssuer)
    THEN [kind |-> "issued", code |-> assetCode, issuer |-> assetIssuer,
          error |-> AssetError(assetCode, assetIssuer)]
  ELSE IF assetCode = "XLM"
    THEN [kind |-> "native", code |-> "XLM", issuer |-> Null, error |-> NoError]
  ELSE [kind |-> "none", code |-> assetCode, issuer |-> assetIssuer, error |-> NoError]

\* "Determine which asset to send": native, issued, or no asset (the 400 branch);
\* `error` is the exception of new Asset(assetCode, assetIssuer)
ResolveAsset(assetCode, assetIssuer) ==
  IF assetCode = "XLM"
    THEN [kind |-> "native", code |-> "XLM", issuer |-> Null, error |-> NoError]
  ELSE IF ~Falsy(assetIssuer)
    THEN [kind |-> "issued", code |-> assetCode, issuer |-> assetIssuer,
          error |-> AssetError(assetCode, assetIssuer)]
  ELSE [kind |-> "none", code |-> assetCode, issuer |-> assetIssuer, error |-> NoError]

\* new TransactionBuilder(account, {fee: '100', ...}).addOperation(op).setTimeout(30).build()
\* followed by transaction.sign(keypair)
SignedTx(secret, seq, op) ==
  [source |-> PublicKeyOf(secret), sequence |-> seq + 1, fee |-> "100",
   timeout |-> 30, network |-> "PUBLIC", operation |-> op,
   signatures |-> <<PublicKeyOf(secret)>>]

\* The handler from its entry to the await of server.loadAccount (or to its response).
\* A result is the steps run, the exception caught, the responses sent and whether
\* the handler is suspended on the gateway.
PaymentBeforeAwait(b) ==
  LET p == PaymentParams(b) IN
  IF MissingPaymentParams(p)
    THEN [events |-> <<"validate", "respond">>, error |-> NoError,
          sent |-> <<BadRequest("Missing required parameters")>>, call |-> "none", drawn |-> NoAnswer]
  ELSE IF FromSecretError(p.sourceSecret) # NoError
    THEN [events |-> <<"validate", "fromSecret", "catch", "respond">>,
          error |-> FromSecretError(p.sourceSecret),
          sent |-> <<ServerError(FromSecretError(p.sourceSecret))>>, call |-> "none", drawn |-> NoAnswer]
  ELSE [events |-> <<"validate", "fromSecret", "loadAccount">>, error |-> NoError,
        sent |-> <<>>, call |-> "loadAccount", drawn |-> NoAnswer]

\* The handler from the settled await to its response.
PaymentAfterAwait(b, ans) ==
  LET p == PaymentParams(b)
      asset == ResolveAsset(p.assetCode, p.assetIssuer)
      opErr == PaymentOpError(p.destinationAddress, p.amount)
      tx == SignedTx(p.sourceSecret, ans.seq,
                     [type |-> "payment", destination |-> p.destinationAddress,
                      asset |-> [kind |-> asset.kind, code |-> asset.code,
                                 issuer |-> asset.issuer],
                      amount |-> p.amount])
  IN
  IF ~ans.ok
    THEN [events |-> <<"settled", "catch", "respond">>, error |-> ans.msg,
          sent |-> <<ServerError(ans.msg)>>, call |-> "none", drawn |-> NoAnswer]
  ELSE IF asset.kind = "none"
    THEN [events |-> <<"settled", "resolveAsset", "respond">>, error |-> NoError,
          sent |-> <<BadRequest("Asset issuer is required for non-native assets")>>,
          call |-> "none", drawn |-> NoAnswer]
  ELSE IF asset.error # NoError
    THEN [events |-> <<"settled", "resolveAsset", "catch", "respond">>,
          error |-> asset.error, sent |-> <<ServerError(asset.error)>>, call |-> "none", drawn |-> NoAnswer]
  ELSE IF opErr # NoError
    THEN [events |-> <<"settled", "resolveAsset", "build", "catch", "respond">>,
          error |-> opErr, sent |-> <<ServerError(opErr)>>, call |-> "none", drawn |-> NoAnswer]
  ELSE [events |-> <<"settled", "resolveAsset", "build", "sign", "toXDR", "respond">>,
        error |-> NoError,
        sent |-> <<Ok([success |-> TRUE, signedXDR |-> ToXDR(tx)])>>, call |-> "none", drawn |-> NoAnswer]

(***************************************************************************)
(* Running a handler segment in slot r                                     *)
(***************************************************************************)
\* a request arrives in slot r and its handler runs to the await or to the response
Begin(r, rt, b, out) ==
  /\ pc[r] = "idle"
  /\ route' = [route EXCEPT ![r] = rt]
  /\ body' = [body EXCEPT ![r] = b]
  /\ pc' = [pc EXCEPT ![r] = IF out.call = "none" THEN "done" ELSE "await"]
  /\ gw' = [gw EXCEPT ![r] =
              IF out.call = "none" THEN @
              ELSE [@ EXCEPT !.issued = @ + 1, !.kind = out.call]]
  /\ log' = [log EXCEPT ![r] = @ \o out.events]
  /\ thrown' = [thrown EXCEPT ![r] = out.error]
  /\ resp' = [resp EXCEPT ![r] = @ \o out.sent]
  /\ drawn' = [drawn EXCEPT ![r] = out.drawn]

\* the gateway call of r settles with ans and the handler runs on from its await
Resume(r, ans, out) ==
  /\ pc[r] = "await"
  /\ pc' = [pc EXCEPT ![r] = IF out.call = "none" THEN "done" ELSE "await"]
  /\ gw' = [gw EXCEPT ![r] =
              IF out.call = "none"
                THEN [@ EXCEPT !.settled = @ + 1, !.answer = ans]
                ELSE [@ EXCEPT !.settled = @ + 1, !.answer = ans,
                               !.issued = @ + 1, !.kind = out.call]]
  /\ log' = [log EXCEPT ![r] = @ \o out.events]
  /\ thrown' = [thrown EXCEPT ![r] = out.error]
  /\ resp' = [resp EXCEPT ![r] = @ \o out.sent]
  /\ UNCHANGED <<route, body, drawn>>

CreatePaymentStart(r, b) == Begin(r, "create-payment", b, PaymentBeforeAwait(b))

CreatePaymentResume(r, ans) ==
  /\ route[r] = "create-payment"
  /\ Resume(r, ans, PaymentAfterAwait(body[r], ans))

(***************************************************************************)
(* POST /api/submit-transaction                                            *)
(***************************************************************************)
\* a validation that tests signedXDR === undefined only
MissingXDRUndefinedOnly(b) == b.signedXDR = Absent

\* if (!signedXDR)
MissingXDR(b) == Falsy(b.signedXDR)

\* a validation whose 400 branch lacks its `return`: the handler runs on into
\* fromXDR, which throws, and the catch block responds again
SubmitBeforeAwaitNoReturn(b) ==
  IF MissingXDR(b)
    THEN [events |-> <<"validate", "respond", "fromXDR", "catch", "respond">>,
          error |-> FromXDRError(b.signedXDR),
          sent |-> <<BadRequest("Missing signed transaction XDR"),
                     ServerError(FromXDRError(b.signedXDR))>>,
          call |-> "none", drawn |-> NoAnswer]
  ELSE IF FromXDRError(b.signedXDR) # NoError
    THEN [events |-> <<"validate", "fromXDR", "catch", "respond">>,
          error |-> FromXDRError(b.signedXDR),
          sent |-> <<ServerError(FromXDRError(b.signedXDR))>>,
          call |-> "none", drawn |-> NoAnswer]
  ELSE [events |-> <<"validate", "fromXDR", "submitTransaction">>, error |-> NoError,
        sent |-> <<>>, call |-> "submitTransaction", drawn |-> NoAnswer]

SubmitBeforeAwait(b) ==
  IF MissingXDR(b)
    THEN [events |-> <<"validate", "respond">>, error |-> NoError,
          sent |-> <<BadRequest("Missing signed transaction XDR")>>,
          call |-> "none", drawn |-> NoAnswer]
  ELSE IF FromXDRError(b.signedXDR) # NoError
    THEN [events |-> <<"validate", "fromXDR", "catch", "respond">>,
          error |-> FromXDRError(b.signedXDR),
          sent |-> <<ServerError(FromXDRError(b.signedXDR))>>,
          call |-> "none", drawn |-> NoAnswer]
  ELSE [events |-> <<"validate", "fromXDR", "submitTransaction">>, error |-> NoError,
        sent |-> <<>>, call |-> "submitTransaction", drawn |-> NoAnswer]

\* a handler that submits again when the gateway rejects the transaction
SubmitAfterAwaitRetry(b, ans) ==
  IF ~ans.ok
    THEN [events |-> <<"settled", "submitTransaction">>, error |-> NoError,
          sent |-> <<>>, call |-> "submitTransaction", drawn |-> NoAnswer]
  ELSE [events |-> <<"settled", "respond">>, error |-> NoError,
        sent |-> <<Ok([success |-> TRUE, transactionId |-> ans.result.id,
                       ledger |-> ans.result.ledger, hash |-> ans.result.hash])>>,
        call |-> "none", drawn |-> NoAnswer]

SubmitAfterAwait(b, ans) ==
  IF ~ans.ok
    THEN [events |-> <<"settled", "catch", "respond">>, error |-> ans.msg,
          sent |-> <<ServerError(ans.msg)>>, call |-> "none", drawn |-> NoAnswer]
  ELSE [events |-> <<"settled", "respond">>, error |-> NoError,
        sent |-> <<Ok([success |-> TRUE, transactionId |-> ans.result.id,
                       ledger |-> ans.result.ledger, hash |-> ans.result.hash])>>,
        call |-> "none", drawn |-> NoAnswer]

SubmitTransactionStart(r, b) == Begin(r, "submit-transaction", b, SubmitBeforeAwait(b))

SubmitTransactionResume(r, ans) ==
  /\ route[r] = "submit-transaction"
  /\ Resume(r, ans, SubmitAfterAwait(body[r], ans))

(***************************************************************************)
(* POST /api/create-trustline                                              *)
(***************************************************************************)
\* the destructuring of req.body with its default
TrustlineParams(b) == [b EXCEPT !.limit = IF @ = Absent THEN "1000000000" ELSE @]

\* if (!secretKey || !assetCode || !assetIssuer)
MissingTrustlineParams(p) ==
  Falsy(p.secretKey) \/ Falsy(p.assetCode) \/ Falsy(p.assetIssuer)

TrustlineBeforeAwait(b) ==
  LET p == TrustlineParams(b) IN
  IF MissingTrustlineParams(p)
    THEN [events |-> <<"validate", "respond">>, error |-> NoError,
          sent |-> <<BadRequest("Missing required parameters")>>,
          call |-> "none", drawn |-> NoAnswer]
  ELSE IF FromSecretError(p.secretKey) # NoError
    THEN [events |-> <<"validate", "fromSecret", "catch", "respond">>,
          error |-> FromSecretError(p.secretKey),
          sent |-> <<ServerError(FromSecretError(p.secretKey))>>,
          call |-> "none", drawn |-> NoAnswer]
  ELSE [events |-> <<"validate", "fromSecret", "loadAccount">>, error |-> NoError,
        sent |-> <<>>, call |-> "loadAccount", drawn |-> NoAnswer]

TrustlineAfterAwait(b, ans) ==
  LET p == TrustlineParams(b)
      assetErr == AssetError(p.assetCode, p.assetIssuer)
      opErr == ChangeTrustError(p.limit)
      tx == SignedTx(p.secretKey, ans.seq,
                     [type |-> "changeTrust",
                      asset |-> [kind |-> "issued", code |-> p.assetCode,
                                 issuer |-> p.assetIssuer],
                      limit |-> p.limit])
  IN
  IF ~ans.ok
    THEN [events |-> <<"settled", "catch", "respond">>, error |-> ans.msg,
          sent |-> <<ServerError(ans.msg)>>, call |-> "none", drawn |-> NoAnswer]
  ELSE IF assetErr # NoError
    THEN [events |-> <<"settled", "resolveAsset", "catch", "respond">>,
          error |-> assetErr, sent |-> <<ServerError(assetErr)>>,
          call |-> "none", drawn |-> NoAnswer]
  ELSE IF opErr # NoError
    THEN [events |-> <<"settled", "resolveAsset", "build", "catch", "respond">>,
          error |-> opErr, sent |-> <<ServerError(opErr)>>,
          call |-> "none", drawn |-> NoAnswer]
  ELSE [events |-> <<"settled", "resolveAsset", "build", "sign", "toXDR", "respond">>,
        error |-> NoError,
        sent |-> <<Ok([success |-> TRUE, signedXDR |-> ToXDR(tx)])>>,
        call |-> "none", drawn |-> NoAnswer]

CreateTrustlineStart(r, b) == Begin(r, "create-trustline", b, TrustlineBeforeAwait(b))

CreateTrustlineResume(r, ans) ==
  /\ route[r] = "create-trustline"
  /\ Resume(r, ans, TrustlineAfterAwait(body[r], ans))

(***************************************************************************)
(* GET /api/create-keypair, GET /, GET /api                                *)
(***************************************************************************)
KeypairHandler(rnd) ==
  IF ~rnd.ok
    THEN [events |-> <<"random", "catch", "respond">>, error |-> rnd.msg,
          sent |-> <<ServerError(rnd.msg)>>, call |-> "none", drawn |-> rnd]
  ELSE [events |-> <<"random", "respond">>, error |-> NoError,
        sent |-> <<Ok([success |-> TRUE, publicKey |-> rnd.pair.publicKey,
                       secretKey |-> rnd.pair.secretKey])>>,
        call |-> "none", drawn |-> rnd]

CreateKeypair(r, rnd) == Begin(r, "create-keypair", NoBody, KeypairHandler(rnd))

HomeHandler ==
  [events |-> <<"respond">>, error |-> NoError, sent |-> <<Ok([success |-> TRUE])>>,
   call |-> "none", drawn |-> NoAnswer]

Home(r) == Begin(r, "home", NoBody, HomeHandler)

ApiHandler ==
  [events |-> <<"respond">>, error |-> NoError,
   sent |-> <<Ok([message |-> "Hello from Express on Vercel!"])>>,
   call |-> "none", drawn |-> NoAnswer]

Api(r) == Begin(r, "api", NoBody, ApiHandler)

(***************************************************************************)
(* The life of a request slot                                              *)
(***************************************************************************)
\* the response of r has been delivered: req and res are dropped, the slot is free
Close(r) ==
  /\ pc[r] = "done"
  /\ pc' = [pc EXCEPT ![r] = "idle"]
  /\ route' = [route EXCEPT ![r] = "none"]
  /\ body' = [body EXCEPT ![r] = NoBody]
  /\ gw' = [gw EXCEPT ![r] = NoGateway]
  /\ log' = [log EXCEPT ![r] = <<>>]
  /\ thrown' = [thrown EXCEPT ![r] = NoError]
  /\ drawn' = [drawn EXCEPT ![r] = NoAnswer]
  /\ resp' = [resp EXCEPT ![r] = <<>>]

(***************************************************************************)
(* Spec: requests of every route arrive at any time, also while others are *)
(* suspended on the gateway or answered                                    *)
(***************************************************************************)
Next ==
  \/ \E r \in Reqs, b \in PaymentBodies : CreatePaymentStart(r, b)
  \/ \E r \in Reqs, ans \in LoadAnswers : CreatePaymentResume(r, ans)
  \/ \E r \in Reqs, b \in SubmitBodies : SubmitTransactionStart(r, b)
  \/ \E r \in Reqs, ans \in SubmitAnswers : SubmitTransactionResume(r, ans)
  \/ \E r \in Reqs, b \in TrustlineBodies : CreateTrustlineStart(r, b)
  \/ \E r \in Reqs, ans \in LoadAnswers : CreateTrustlineResume(r, ans)
  \/ \E r \in Reqs, rnd \in RandomAnswers : CreateKeypair(r, rnd)
  \/ \E r \in Reqs : Home(r)
  \/ \E r \in Reqs : Api(r)
  \/ \E r \in Reqs : Close(r)

Spec == Init /\ [][Next]_vars

(***************************************************************************)
(* Vocabulary of the properties                                            *)
(***************************************************************************)
\* the handler of r has run step e
Ran(r, e) == \E i \in DOMAIN log[r] : log[r][i] = e

\* the position of the first step e of r (0: never run)
FirstAt(r, e) ==
  IF Ran(r, e) THEN CHOOSE i \in DOMAIN log[r] :
                      log[r][i] = e /\ \A j \in 1..(i - 1) : log[r][j] # e
  ELSE 0

\* r is a create-payment request with its three required fields
IsPayment(r) == route[r] = "create-payment"
RequiredPresent(r) ==
  /\ ~Falsy(body[r].sourceSecret)
  /\ ~Falsy(body[r].destinationAddress)
  /\ ~Falsy(body[r].amount)

\* the gateway call of r settled with a rejection
GatewayFailed(r) == gw[r].settled > 0 /\ ~gw[r].answer.ok

\* an SDK call the handler of r made threw, or its gateway call failed
DownstreamFailure(r) ==
  \/ thrown[r] # NoError
  \/ GatewayFailed(r)
  \/ Ran(r, "fromSecret") /\ IsPayment(r) /\ body[r].sourceSecret \notin ValidSecrets
  \/ Ran(r, "fromSecret") /\ route[r] = "create-trustline"
       /\ body[r].secretKey \notin ValidSecrets
  \/ Ran(r, "fromXDR") /\ body[r].signedXDR \notin ValidXDRs
  \/ Ran(r, "random") /\ ~drawn[r].ok

\* the request of r is a client input error: a required field is missing, or the
\* asset of a payment cannot be resolved (a non-native code without an issuer)
ClientInputError(r) ==
  \/ IsPayment(r) /\ ~RequiredPresent(r)
  \/ IsPayment(r) /\ body[r].assetCode \notin {Absent, "XLM"}
       /\ Falsy(body[r].assetIssuer)
  \/ route[r] = "create-trustline"
       /\ (Falsy(body[r].secretKey) \/ Falsy(body[r].assetCode)
             \/ Falsy(body[r].assetIssuer))
  \/ route[r] = "submit-transaction" /\ Falsy(body[r].signedXDR)

StaticMessages ==
  {"Missing required parameters", "Asset issuer is required for non-native assets",
   "Missing signed transaction XDR"}

(***************************************************************************)
(* C1                                                                      *)
(***************************************************************************)
\* C1: a create-payment request with its three required fields, a non-native
\* asset code and no assetIssuer is answered 400 with the issuer-required message,
\* whatever the secret is and whatever the gateway answers.
C1_IssuerRequiredAlways ==
  \A r \in Reqs :
    (/\ IsPayment(r) /\ pc[r] = "done"
     /\ RequiredPresent(r)
     /\ body[r].assetCode \notin {Absent, "XLM"}
     /\ body[r].assetIssuer = Absent)
    => resp[r] = <<BadRequest("Asset issuer is required for non-native assets")>>

(***************************************************************************)
(* C2                                                                      *)
(***************************************************************************)
\* C2: a create-payment request in which sourceSecret, destinationAddress or amount
\* is missing is answered 400 "Missing required parameters" whatever its other
\* fields are, and its handler calls neither Keypair.fromSecret nor the gateway.
C2_MissingParams400 ==
  \A r \in Reqs :
    (IsPayment(r) /\ ~RequiredPresent(r))
    => /\ pc[r] = "done"
       /\ resp[r] = <<BadRequest("Missing required parameters")>>
       /\ ~Ran(r, "fromSecret")
       /\ ~Ran(r, "loadAccount")
       /\ gw[r].issued = 0

\* a request with a valid secret, destination, asset and issuer but an empty amount was
\* answered 400
C2_Witness ==
  \E r \in Reqs :
    /\ IsPayment(r) /\ pc[r] = "done"
    /\ body[r].sourceSecret = "SGOOD" /\ body[r].destinationAddress = "GDEST"
    /\ body[r].amount = ""
    /\ body[r].assetCode = "USD" /\ body[r].assetIssuer = "GISSUER"
    /\ resp[r][1].status = 400

(***************************************************************************)
(* C3                                                                      *)
(***************************************************************************)
\* C3: on every route, a request whose SDK call threw or whose gateway call failed
\* is answered with exactly HTTP 500, success false and the non-empty message of
\* the failure.
C3_DownstreamFailure500 ==
  \A r \in Reqs :
    DownstreamFailure(r)
    => /\ pc[r] = "done"
       /\ Len(resp[r]) = 1
       /\ resp[r][1].status = 500
       /\ resp[r][1].json.success = FALSE
       /\ resp[r][1].json.error = thrown[r]
       /\ resp[r][1].json.error \notin {"", NoError}
       /\ GatewayFailed(r) => resp[r][1].json.error = gw[r].answer.msg

\* a create-payment request that passed validation had its account lookup rejected
C3_Witness ==
  \E r \in Reqs :
    /\ IsPayment(r) /\ pc[r] = "done"
    /\ GatewayFailed(r) /\ gw[r].answer.msg = "Not Found"
    /\ resp[r][1].status = 500

(***************************************************************************)
(* C4                                                                      *)
(***************************************************************************)
\* C4: every error response is a 400 with a static message for a client input
\* error or a 500 with the underlying message for a downstream failure; a client
\* input error is never answered 500 and a downstream failure never 400.
C4_TwoErrorKinds ==
  \A r \in Reqs :
    (pc[r] = "done" /\ resp[r][1].status # 200)
    => /\ \/ resp[r][1].status = 400 /\ resp[r][1].json.error \in StaticMessages
          \/ resp[r][1].status = 500 /\ resp[r][1].json.error = thrown[r]
       /\ ClientInputError(r) => resp[r][1].status = 400
       /\ DownstreamFailure(r) => resp[r][1].status = 500

(***************************************************************************)
(* C5                                                                      *)
(***************************************************************************)
\* C5: a request issues at most one gateway call, issues none after a failed one,
\* and is answered only once the call it issued has settled.
C5_OneGatewayCall ==
  \A r \in Reqs :
    /\ gw[r].issued <= 1
    /\ gw[r].settled <= gw[r].issued
    /\ GatewayFailed(r) => gw[r].issued = 1 /\ pc[r] = "done"
    /\ resp[r] # <<>> => gw[r].settled = gw[r].issued
    /\ (Ran(r, "respond") /\ gw[r].issued > 0)
         => (Ran(r, "settled") /\ FirstAt(r, "settled") < FirstAt(r, "respond"))

\* a submit-transaction request was answered after its one submission was rejected
C5_Witness ==
  \E r \in Reqs :
    /\ route[r] = "submit-transaction" /\ pc[r] = "done"
    /\ gw[r].issued = 1 /\ GatewayFailed(r)
    /\ Len(resp[r]) = 1

(***************************************************************************)
(* C6                                                                      *)
(***************************************************************************)
\* C6: a create-payment request with assetCode 'XLM' or without assetCode is never
\* answered 400 because of its issuer, the payment it builds is of the native asset
\* and carries no issuer, and the issuer is not even validated.
C6_NativeIgnoresIssuer ==
  \A r \in Reqs :
    (/\ IsPayment(r) /\ pc[r] = "done"
     /\ RequiredPresent(r)
     /\ body[r].assetCode \in {Absent, "XLM"})
    => /\ resp[r][1].status # 400
       /\ resp[r][1].status = 500
            => resp[r][1].json.error
                 \notin {"Issuer is invalid", "Asset issuer is required for non-native assets"}
       /\ resp[r][1].status = 200
            => resp[r][1].json.signedXDR[2].operation.asset
                 = [kind |-> "native", code |-> "XLM", issuer |-> Null]
       /\ (/\ gw[r].answer.ok
           /\ body[r].destinationAddress \in ValidPublicKeys
           /\ body[r].amount \in ValidAmounts)
            => resp[r][1].status = 200

\* a payment of XLM sent with an issuer was built
C6_Witness ==
  \E r \in Reqs :
    /\ IsPayment(r) /\ pc[r] = "done"
    /\ body[r].assetCode = "XLM" /\ body[r].assetIssuer = "GISSUER"
    /\ resp[r][1].status = 200

(***************************************************************************)
(* C7                                                                      *)
(***************************************************************************)
\* C7: a submit-transaction request without signedXDR is answered 400 "Missing
\* signed transaction XDR"; its handler decodes nothing and calls no gateway.
C7_MissingXDR400 ==
  \A r \in Reqs :
    (route[r] = "submit-transaction" /\ Falsy(body[r].signedXDR))
    => /\ pc[r] = "done"
       /\ resp[r] = <<BadRequest("Missing signed transaction XDR")>>
       /\ ~Ran(r, "fromXDR")
       /\ ~Ran(r, "submitTransaction")
       /\ gw[r].issued = 0

\* a request with an empty signedXDR was answered
C7_Witness ==
  \E r \in Reqs :
    /\ route[r] = "submit-transaction" /\ pc[r] = "done"
    /\ body[r].signedXDR = ""
    /\ resp[r][1].status = 400

(***************************************************************************)
(* C9                                                                      *)
(***************************************************************************)
\* C9: the payment builder resolves the asset before it fetches the account, so a
\* create-payment request answered 400 has issued no gateway call.
C9_ValidateResolveFetch ==
  \A r \in Reqs :
    IsPayment(r)
    => /\ (Ran(r, "resolveAsset") /\ Ran(r, "loadAccount"))
            => FirstAt(r, "resolveAsset") < FirstAt(r, "loadAccount")
       /\ (pc[r] = "done" /\ resp[r][1].status = 400) => gw[r].issued = 0

(***************************************************************************)
(* C10                                                                     *)
(***************************************************************************)
\* C10: a request has no response while its handler is suspended and exactly one
\* once its handler has ended: a 400 is followed by nothing, a failure is
\* answered by the 500 of the catch block alone.
C10_ExactlyOneResponse ==
  \A r \in Reqs :
    /\ Len(resp[r]) <= 1
    /\ pc[r] = "done" => Len(resp[r]) = 1
    /\ pc[r] \in {"idle", "await"} => Len(resp[r]) = 0
    /\ Len(SelectSeq(log[r], LAMBDA e : e = "respond")) = Len(resp[r])
    /\ (pc[r] = "done" /\ thrown[r] # NoError) => resp[r] = <<ServerError(thrown[r])>>

\* a create-trustline request whose account lookup failed after validation passed
\* has its one response
C10_Witness ==
  \E r \in Reqs :
    /\ route[r] = "create-trustline" /\ pc[r] = "done"
    /\ GatewayFailed(r)
    /\ Len(resp[r]) = 1 /\ resp[r][1].status = 500

====
